---- MODULE Spec2Model ----
(***************************************************************************)
(* A model of src/aitcgen.py: the CSV normalisation functions              *)
(* (count_csv_rows, enforce_metadata_on_csv, the header clean-up block of  *)
(* generate_test_cases_with_ai) and the Streamlit session that calls them. *)
(*                                                                         *)
(* Text is a sequence of one-character strings, so that parsing, writing   *)
(* and stripping are computed character by character as Python does.       *)
(***************************************************************************)
EXTENDS Integers, Sequences, FiniteSets, TLC

VARIABLES
    pc,           \* position of the function call under test
    csv_string,   \* the text argument of the function under test
    labels,       \* the Labels replacement value
    coverage,     \* the Coverage (Issues) replacement value
    ret,          \* the value the function returned
    warned,       \* st.warning was called during the call
    n_records,    \* records the input was built from (-1: free text)
    \* st.session_state and the script's locals (the session specification)
    is_generating,
    csv_result,             \* <<>> for None, <<text>> for a result
    metadata,               \* <<>> for {}, <<record>> otherwise
    project_tag,
    action_tag,
    api_key_input,
    api_key_valid,
    api_key_error_message,
    uploaded_files,         \* the number of files in the uploader widget
    user_prompt_content,
    platform_tag,
    client_cache,           \* st.cache_resource of get_gemini_client
    gemini_files,           \* the handles the uploads of this run returned
    generated,              \* <<>> or <<the string the generator returned>>
    ran,                    \* the stages that ran in the latest run
    attempts                \* calls made to the service in this request

fnVars == <<csv_string, ret, warned, n_records>>

uiVars == <<is_generating, csv_result, metadata, project_tag, action_tag,
            api_key_input, api_key_valid, api_key_error_message,
            uploaded_files, user_prompt_content, platform_tag, client_cache,
            gemini_files, generated, ran, attempts>>

vars == <<pc, labels, coverage, fnVars, uiVars>>

(***************************************************************************)
(* Bounds of the model.                                                    *)
(***************************************************************************)
MaxBody == 4

(***************************************************************************)
(* Characters and Python's str.strip().                                    *)
(***************************************************************************)
COMMA == ","
QUOTE == "\""
LF    == "\n"
CR    == "\r"
SP    == " "
NUL   == "NUL"

IsSpace(c) == c \in {SP, LF, CR, "\t"}

RECURSIVE RStrip(_)
RStrip(s) ==
    IF s = <<>> THEN s
    ELSE IF IsSpace(s[Len(s)]) THEN RStrip(SubSeq(s, 1, Len(s) - 1))
    ELSE s

RECURSIVE LStrip(_)
LStrip(s) ==
    IF s = <<>> THEN s
    ELSE IF IsSpace(s[1]) THEN LStrip(Tail(s))
    ELSE s

Strip(s) == LStrip(RStrip(s))

(***************************************************************************)
(* csv.reader with the default (excel) dialect: the character automaton of *)
(* CPython's _csv module, fed the lines io.StringIO yields (split after    *)
(* each "\n" only, the terminator kept) and an end-of-line event after     *)
(* each line.                                                              *)
(***************************************************************************)
ReaderStart ==
    [state |-> "START_RECORD", field |-> <<>>, fields |-> <<>>,
     rows |-> <<>>, err |-> FALSE]

SaveField(r) == [r EXCEPT !.fields = Append(@, r.field), !.field = <<>>]

AddChar(r, c) == [r EXCEPT !.field = Append(@, c)]

IsEol(c) == c \in {LF, CR, NUL}

EndOfField(r, c) ==
    [SaveField(r) EXCEPT !.state = IF c = NUL THEN "START_RECORD" ELSE "EAT_CRNL"]

StartField(r, c) ==
    IF IsEol(c) THEN EndOfField(r, c)
    ELSE IF c = QUOTE THEN [r EXCEPT !.state = "IN_QUOTED_FIELD"]
    ELSE IF c = COMMA THEN [SaveField(r) EXCEPT !.state = "START_FIELD"]
    ELSE [AddChar(r, c) EXCEPT !.state = "IN_FIELD"]

ProcessChar(r, c) ==
    CASE r.state = "START_RECORD" ->
            IF c = NUL THEN r
            ELSE IF c \in {LF, CR} THEN [r EXCEPT !.state = "EAT_CRNL"]
            ELSE StartField(r, c)
      [] r.state = "START_FIELD" -> StartField(r, c)
      [] r.state = "IN_FIELD" ->
            IF IsEol(c) THEN EndOfField(r, c)
            ELSE IF c = COMMA THEN [SaveField(r) EXCEPT !.state = "START_FIELD"]
            ELSE AddChar(r, c)
      [] r.state = "IN_QUOTED_FIELD" ->
            IF c = NUL THEN r
            ELSE IF c = QUOTE THEN [r EXCEPT !.state = "QUOTE_IN_QUOTED_FIELD"]
            ELSE AddChar(r, c)
      [] r.state = "QUOTE_IN_QUOTED_FIELD" ->
            IF c = QUOTE THEN [AddChar(r, c) EXCEPT !.state = "IN_QUOTED_FIELD"]
            ELSE IF c = COMMA THEN [SaveField(r) EXCEPT !.state = "START_FIELD"]
            ELSE IF IsEol(c) THEN EndOfField(r, c)
            ELSE [AddChar(r, c) EXCEPT !.state = "IN_FIELD"]
      [] r.state = "EAT_CRNL" ->
            IF c \in {LF, CR} THEN r
            ELSE IF c = NUL THEN [r EXCEPT !.state = "START_RECORD"]
            ELSE [r EXCEPT !.err = TRUE]

\* A record is returned when a line ends in START_RECORD.
EmitRecord(r) ==
    IF r.state = "START_RECORD"
    THEN [r EXCEPT !.rows = Append(@, r.fields), !.fields = <<>>, !.field = <<>>]
    ELSE r

\* The end of a line: the end-of-line event, then the record if one is complete.
EndOfLine(r) ==
    LET q == ProcessChar(r, NUL) IN IF q.err THEN q ELSE EmitRecord(q)

\* The input is exhausted inside a record: the pending field is saved and
\* the record returned (strict is off).
EndOfInput(r) ==
    IF r.state # "START_RECORD" /\ (r.field # <<>> \/ r.state = "IN_QUOTED_FIELD")
    THEN [r EXCEPT !.rows = Append(@, Append(r.fields, r.field)),
                   !.fields = <<>>, !.field = <<>>, !.state = "START_RECORD"]
    ELSE r

\* The reader after character i of the text: nothing more is read once
\* csv.Error was raised; a line ends after "\n" and at the end of the text.
ReadChar(r, text, i) ==
    IF r.err THEN r
    ELSE LET q == ProcessChar(r, text[i]) IN
         IF q.err THEN q
         ELSE IF text[i] = LF \/ i = Len(text) THEN EndOfLine(q)
         ELSE q

\* The reader after the characters lo..hi, read in order.  The range is
\* halved so that the evaluation does not nest once for each character; p
\* is the reader after the first half, from which the second half is read.
RECURSIVE ReadRange(_, _, _, _)
ReadRange(r, text, lo, hi) ==
    IF lo > hi THEN r
    ELSE IF lo = hi THEN ReadChar(r, text, lo)
    ELSE CHOOSE q \in { ReadRange(p, text, (lo + hi) \div 2 + 1, hi) :
                            p \in { ReadRange(r, text, lo, (lo + hi) \div 2) } } : TRUE

\* The reader after the characters from i to the end of the text.
ReadFrom(r, text, i) ==
    LET q == ReadRange(r, text, i, Len(text)) IN
    IF q.err THEN q ELSE EndOfInput(q)

\* list(csv.reader(io.StringIO(text))): the records read before an error, and
\* whether csv.Error was raised.
ParseCSV(text) ==
    LET r == ReadFrom(ReaderStart, text, 1) IN [rows |-> r.rows, err |-> r.err]

(***************************************************************************)
(* csv.writer with quoting=csv.QUOTE_MINIMAL and the default line          *)
(* terminator "\r\n".                                                      *)
(***************************************************************************)
NeedsQuote(field) ==
    \E i \in 1..Len(field) : field[i] \in {COMMA, QUOTE, CR, LF}

RECURSIVE DoubleQuotes(_)
DoubleQuotes(field) ==
    IF field = <<>> THEN <<>>
    ELSE IF field[1] = QUOTE THEN <<QUOTE, QUOTE>> \o DoubleQuotes(Tail(field))
    ELSE <<field[1]>> \o DoubleQuotes(Tail(field))

\* One field; quote_empty is set for the only field of a one-field row.
WriteField(field, quote_empty) ==
    IF NeedsQuote(field) \/ (field = <<>> /\ quote_empty)
    THEN <<QUOTE>> \o DoubleQuotes(field) \o <<QUOTE>>
    ELSE field

RECURSIVE JoinFields(_, _)
JoinFields(row, i) ==
    IF i > Len(row) THEN <<>>
    ELSE (IF i > 1 THEN <<COMMA>> ELSE <<>>)
         \o WriteField(row[i], Len(row) = 1)
         \o JoinFields(row, i + 1)

WriteRowLF(row) == JoinFields(row, 1) \o <<LF>>

\* writer.writerow(row)
WriteRow(row) == JoinFields(row, 1) \o <<CR, LF>>

RECURSIVE WriteRows(_)
WriteRows(rows) ==
    IF rows = <<>> THEN <<>> ELSE WriteRow(rows[1]) \o WriteRows(Tail(rows))

(***************************************************************************)
(* Column names and the tag of a failed generation.                        *)
(***************************************************************************)
LabelsName == <<"L", "a", "b", "e", "l", "s">>

CoverageName ==
    <<"C", "o", "v", "e", "r", "a", "g", "e", " ",
      "(", "I", "s", "s", "u", "e", "s", ")">>

NameName == <<"N", "a", "m", "e">>

(***************************************************************************)
(* enforce_metadata_on_csv.  Indices are 1-based; 0 stands for None.       *)
(***************************************************************************)
\* header_map.get(name): a later column of the same stripped name wins.
HeaderIndex(header, name) ==
    LET hits == {i \in 1..Len(header) : Strip(header[i]) = name}
    IN IF hits = {} THEN 0 ELSE CHOOSE i \in hits : \A j \in hits : j <= i

MissingColumnAnd(labels_index, coverage_index) ==
    labels_index = 0 /\ coverage_index = 0

MissingColumnLabelsOnly(labels_index, coverage_index) == labels_index = 0

\* if labels_index is None or coverage_index is None
MissingColumn(labels_index, coverage_index) ==
    labels_index = 0 \/ coverage_index = 0

MissingColumnResultWarn(text) ==
    [ret |-> text, warned |-> TRUE]

\* return csv_string
MissingColumnResult(text) ==
    [ret |-> text, warned |-> FALSE]

ParseFailureResultSilent(text) ==
    [ret |-> text, warned |-> FALSE]

\* except Exception: st.warning(...); return csv_string
ParseFailureResult(text) ==
    [ret |-> text, warned |-> TRUE]

KeepRowAny(row, header) == row # <<>>

\* the rows that pass "if not row or len(row) < len(header): continue"
KeepRow(row, header) == row # <<>> /\ Len(row) >= Len(header)

\* row[labels_index] = labels; row[coverage_index] = coverage
Overwrite(row, labels_index, coverage_index, l, c) ==
    [j \in 1..Len(row) |->
        IF j = coverage_index THEN c
        ELSE IF j = labels_index THEN l
        ELSE row[j]]

RECURSIVE EnforceRows(_, _, _, _, _, _)
EnforceRows(rows, header, labels_index, coverage_index, l, c) ==
    IF rows = <<>> THEN <<>>
    ELSE (IF KeepRow(rows[1], header)
          THEN <<Overwrite(rows[1], labels_index, coverage_index, l, c)>>
          ELSE <<>>)
         \o EnforceRows(Tail(rows), header, labels_index, coverage_index, l, c)

\* return output_io.getvalue().strip()
EnforcedText(header, rows) == Strip(WriteRow(header) \o WriteRows(rows))

enforce_metadata_on_csv(text, l, c) ==
    IF text = <<>> THEN [ret |-> <<>>, warned |-> FALSE]
    ELSE
      LET p == ParseCSV(text) IN
      IF p.rows = <<>>
      THEN ParseFailureResult(text)       \* next(reader) raised
      ELSE
        LET header == p.rows[1]
            labels_index == HeaderIndex(header, LabelsName)
            coverage_index == HeaderIndex(header, CoverageName)
        IN IF MissingColumn(labels_index, coverage_index)
           THEN MissingColumnResult(text)
           ELSE IF p.err
           THEN ParseFailureResult(text)  \* the reader raised on a data row
           ELSE [ret |-> EnforcedText(header,
                            EnforceRows(Tail(p.rows), header,
                                        labels_index, coverage_index, l, c)),
                 warned |-> FALSE]

(***************************************************************************)
(* count_csv_rows.                                                         *)
(***************************************************************************)
\* The lines io.StringIO yields: split after each "\n", the terminator kept.
\* cur is the part of the first line already read (it holds no "\n").  A
\* line ends at each "\n" and at the last character.
LinesKeepEnds(text, cur) ==
    LET all == cur \o text
        ends == {i \in 1..Len(all) : i = Len(all) \/ (i > Len(cur) /\ all[i] = LF)}
        Start(e) == IF \E d \in ends : d < e
                    THEN 1 + CHOOSE d \in ends : d < e /\ \A c \in ends : c < e => c <= d
                    ELSE 1
        Nth(k) == CHOOSE e \in ends : Cardinality({d \in ends : d <= e}) = k
    IN [k \in 1..Cardinality(ends) |-> SubSeq(all, Start(Nth(k)), Nth(k))]

RECURSIVE Concat(_)
Concat(seqs) == IF seqs = <<>> THEN <<>> ELSE seqs[1] \o Concat(Tail(seqs))

\* lines = [line for line in string_io if line.strip()]
NonBlankLines(text) ==
    SelectSeq(LinesKeepEnds(text, <<>>), LAMBDA line : Strip(line) # <<>>)

DataRowCountWithHeader(row_count) == row_count

CountSoFarOnParseFailure(row_count) == IF row_count - 1 > 0 THEN row_count - 1 ELSE 0

\* except Exception: return 0, whatever row_count has reached
CountOnParseFailure(row_count) == 0

\* return max(0, row_count - 1)
DataRowCount(row_count) == IF row_count - 1 > 0 THEN row_count - 1 ELSE 0

count_csv_rows(text) ==
    LET lines == NonBlankLines(text) IN
    IF lines = <<>> THEN 0
    ELSE LET p == ParseCSV(Concat(lines)) IN
         IF p.err THEN CountOnParseFailure(Len(p.rows))
         ELSE DataRowCount(Len(p.rows))

(***************************************************************************)
(* The header clean-up block of generate_test_cases_with_ai.               *)
(***************************************************************************)
\* str.split('\n')
\* cur is the part of the first piece already read.  The pieces lie between
\* one "\n" (or the start) and the next (or the end).
SplitLF(text, cur) ==
    LET cuts == {0} \cup {i \in 1..Len(text) : text[i] = LF}
        CutAfter(a) == IF \E b \in cuts : b > a
                       THEN CHOOSE b \in cuts : b > a /\ \A c \in cuts : c > a => b <= c
                       ELSE Len(text) + 1
        Nth(k) == CHOOSE a \in cuts : Cardinality({c \in cuts : c <= a}) = k
    IN [k \in 1..Cardinality(cuts) |->
           (IF k = 1 THEN cur ELSE <<>>)
           \o SubSeq(text, Nth(k) + 1, CutAfter(Nth(k)) - 1)]

RECURSIVE StripAll(_)
StripAll(seqs) ==
    IF seqs = <<>> THEN <<>> ELSE <<Strip(seqs[1])>> \o StripAll(Tail(seqs))

\* lines = [line.strip() for line in raw_csv_text.split('\n') if line.strip()]
StrippedLines(text) ==
    SelectSeq(StripAll(SplitLF(text, <<>>)), LAMBDA line : line # <<>>)

\* '\n'.join(lines)
RECURSIVE JoinLF(_)
JoinLF(lines) ==
    IF lines = <<>> THEN <<>>
    ELSE IF Len(lines) = 1 THEN lines[1]
    ELSE lines[1] \o <<LF>> \o JoinLF(Tail(lines))

\* next(csv.reader(io.StringIO(line))): the first record, or an exception.
NextRecord(line) ==
    LET p == ParseCSV(line) IN
    IF p.rows = <<>> THEN [ok |-> FALSE, row |-> <<>>]
    ELSE [ok |-> TRUE, row |-> p.rows[1]]

\* writer.writerow(row); getvalue().strip()
FormatRow(row) == Strip(WriteRow(row))

ExpectedHeaderRaw(line) == line

\* expected_header: the first line re-serialised, or the line itself when
\* it cannot be parsed.
ExpectedHeader(line) ==
    LET r == NextRecord(line) IN IF r.ok THEN FormatRow(r.row) ELSE line

IsHeaderRepeatVerbatim(line, expected_header) == line = expected_header

\* the line is parsed and "formatted_line != expected_header" is false
IsHeaderRepeat(line, expected_header) ==
    LET r == NextRecord(line) IN r.ok /\ FormatRow(r.row) = expected_header

KeptTextFormatted(line) == FormatRow(NextRecord(line).row)

\* filtered_lines.append(line)
KeptText(line) == line

UnparseableLineKept(line) == <<line>>

\* except Exception: continue
UnparseableLine(line) == <<>>

RECURSIVE FilterLines(_, _)
FilterLines(lines, expected_header) ==
    IF lines = <<>> THEN <<>>
    ELSE (IF ~NextRecord(lines[1]).ok THEN UnparseableLine(lines[1])
          ELSE IF IsHeaderRepeat(lines[1], expected_header) THEN <<>>
          ELSE <<KeptText(lines[1])>>)
         \o FilterLines(Tail(lines), expected_header)

SingleLineResultFormatted(raw_csv_text) == ExpectedHeader(Strip(raw_csv_text))

\* else: final_csv_output = raw_csv_text
SingleLineResult(raw_csv_text) == raw_csv_text

\* final_csv_output, from the fence-stripped raw_csv_text
DeduplicateHeader(raw_csv_text) ==
    LET lines == StrippedLines(raw_csv_text) IN
    IF Len(lines) > 1
    THEN LET expected_header == ExpectedHeader(lines[1]) IN
         JoinLF(<<expected_header>> \o FilterLines(Tail(lines), expected_header))
    ELSE SingleLineResult(raw_csv_text)

(***************************************************************************)
(* The session's variables as the initialisation of st.session_state       *)
(* leaves them with no API key in the environment; the specifications of   *)
(* the single functions keep them there.                                   *)
(***************************************************************************)
None == "None"

NonEmptyKeys == {"k_ok", "k_bad"}

EmptyCache == [k \in NonEmptyKeys |-> "absent"]

MaxFiles == 2

\* No call of the generative service, no upload, no deletion yet, and no
\* handle returned by an upload.
NoAttempts ==
    [generate |-> 0,
     upload |-> [f \in 1..MaxFiles |-> 0],
     delete |-> [f \in 1..MaxFiles |-> 0],
     handles |-> {}]

SessionAtRest ==
    /\ is_generating = FALSE
    /\ csv_result = <<>>
    /\ metadata = <<>>
    /\ project_tag = ""
    /\ action_tag = ""
    /\ api_key_input = ""
    /\ api_key_valid = FALSE
    /\ api_key_error_message = None
    /\ uploaded_files = 0
    /\ user_prompt_content = ""
    /\ platform_tag = "Website"
    /\ client_cache = EmptyCache
    /\ gemini_files = <<>>
    /\ generated = <<>>
    /\ ran = {}
    /\ attempts = NoAttempts

(***************************************************************************)
(* The inputs of the function specifications.                              *)
(***************************************************************************)
Alphabet == {"a", COMMA, QUOTE, LF, CR, SP}

Bodies == UNION {[1..n -> Alphabet] : n \in 0..MaxBody}

\* `Name,Labels`, `Labels,Coverage (Issues)` and
\* `Coverage (Issues)," Labels",Name`
HeaderLines ==
    { NameName \o <<COMMA>> \o LabelsName,
      LabelsName \o <<COMMA>> \o CoverageName,
      CoverageName \o <<COMMA, QUOTE, SP>> \o LabelsName
          \o <<QUOTE, COMMA>> \o NameName }

\* `Labels,Coverage (Issues)\na\n,,\n"a,",a ,a\n\na,a` : a short row, a
\* long row, a row with a quoted field and an extra cell, a blank line.
MixedRowsInput ==
    LabelsName \o <<COMMA>> \o CoverageName
    \o <<LF, "a", LF, COMMA, COMMA, LF, QUOTE, "a", COMMA, QUOTE, COMMA,
         "a", SP, COMMA, "a", LF, LF, "a", COMMA, "a">>

\* `Labels,Coverage (Issues)\na,a\na\ra,a` : a bare carriage return inside
\* the second data row.
BareCRInput ==
    LabelsName \o <<COMMA>> \o CoverageName
    \o <<LF, "a", COMMA, "a", LF, "a", CR, "a", COMMA, "a">>

\* `Name,Labels\n"a,b",old`
ExampleEnforceInput ==
    NameName \o <<COMMA>> \o LabelsName
    \o <<LF, QUOTE, "a", COMMA, "b", QUOTE, COMMA, "o", "l", "d">>

EnforceInputs ==
    Bodies \cup {h \o b : h \in HeaderLines, b \in Bodies}
           \cup {ExampleEnforceInput, MixedRowsInput, BareCRInput}

\* The values the session passes are stripped (default_labels_input.strip()).
LabelValues == { <<"q", "a">>, <<"q", COMMA>> }

CoverageValues == { <<>>, <<"P">> }

InitEnforce ==
    /\ SessionAtRest
    /\ pc = "enforce"
    /\ csv_string \in EnforceInputs
    /\ labels \in LabelValues
    /\ coverage \in CoverageValues
    /\ ret = <<>>
    /\ warned = FALSE
    /\ n_records = -1

CallEnforce ==
    /\ pc = "enforce"
    /\ LET r == enforce_metadata_on_csv(csv_string, labels, coverage) IN
         /\ ret' = r.ret
         /\ warned' = r.warned
    /\ pc' = "enforced"
    /\ UNCHANGED <<csv_string, labels, coverage, n_records, uiVars>>

NextEnforce == CallEnforce

SpecEnforce == InitEnforce /\ [][NextEnforce]_vars

(***************************************************************************)
(* The specification of count_csv_rows: tables written from a list of      *)
(* records (n_records of them), and free text.                             *)
(***************************************************************************)
MaxRecords == 4

\* `a` / `a,` / `"a<LF><LF>a",a` / `","` / `""`
RecordChoices ==
    { << <<"a">> >>,
      << <<"a">>, <<>> >>,
      << <<"a", LF, LF, "a">>, <<"a">> >>,
      << <<COMMA>> >>,
      << <<>> >> }

Tables == UNION {[1..n -> RecordChoices] : n \in 0..MaxRecords}

\* The records, each ended by eol, a blank line after the first record when
\* blank is set, and the last terminator left out unless trailing is set.
RECURSIVE RenderTable(_, _, _, _, _)
RenderTable(rows, i, eol, blank, trailing) ==
    IF i > Len(rows) THEN <<>>
    ELSE JoinFields(rows[i], 1)
         \o (IF i < Len(rows) \/ trailing THEN eol ELSE <<>>)
         \o (IF i = 1 /\ blank /\ i < Len(rows) THEN eol ELSE <<>>)
         \o RenderTable(rows, i + 1, eol, blank, trailing)

\* Three records, and a bare carriage return inside the fourth line.
BareCRTable == <<"a", LF, "a", LF, "a", LF, "a", CR, "a">>

InitCount ==
    /\ SessionAtRest
    /\ pc = "count"
    /\ \/ \E t \in Tables, eol \in {<<LF>>, <<CR, LF>>}, blank \in BOOLEAN,
             trailing \in BOOLEAN :
            /\ csv_string = RenderTable(t, 1, eol, blank, trailing)
            /\ n_records = Len(t)
       \/ /\ csv_string \in Bodies \cup {BareCRTable}
          /\ n_records = -1
    /\ labels = <<>>
    /\ coverage = <<>>
    /\ ret = -1
    /\ warned = FALSE

CallCount ==
    /\ pc = "count"
    /\ ret' = count_csv_rows(csv_string)
    /\ pc' = "counted"
    /\ UNCHANGED <<csv_string, labels, coverage, warned, n_records, uiVars>>

NextCount == CallCount

SpecCount == InitCount /\ [][NextCount]_vars

(***************************************************************************)
(* The specification of the header clean-up block: every text of up to     *)
(* MaxText characters that the preceding strip() can leave, and the        *)
(* example of a repeated header.                                           *)
(***************************************************************************)
MaxText == 6

StatusName == <<"S", "t", "a", "t", "u", "s">>

DraftName == <<"D", "r", "a", "f", "t">>

\* `Name,Status\nA,Draft\nName,Status\nB,Draft`
ExampleDedupInput ==
    NameName \o <<COMMA>> \o StatusName \o <<LF, "A", COMMA>> \o DraftName
    \o <<LF>> \o NameName \o <<COMMA>> \o StatusName
    \o <<LF, "B", COMMA>> \o DraftName

\* `Name,Status\nA,Draft\nB,Draft`
ExampleDedupOutput ==
    NameName \o <<COMMA>> \o StatusName \o <<LF, "A", COMMA>> \o DraftName
    \o <<LF, "B", COMMA>> \o DraftName

Texts == UNION {[1..n -> Alphabet] : n \in 0..MaxText}

\* A header, a repeat of it in quotes, and a data line in a quoting of its
\* own: `a`, `"a"`, `"a"a`.
QuotedRepeatInput ==
    <<"a", LF, QUOTE, "a", QUOTE, LF, QUOTE, "a", QUOTE, "a">>

\* A line the reader rejects, a carriage return inside an unquoted field,
\* between two data lines: `a`, `,`, `a\ra`, `""`.
UnparseableLineInput ==
    <<"a", LF, COMMA, LF, "a", CR, "a", LF, QUOTE, QUOTE>>

DedupInputs ==
    {t \in Texts : Strip(t) = t}
    \cup {ExampleDedupInput, QuotedRepeatInput, UnparseableLineInput}

InitDedup ==
    /\ SessionAtRest
    /\ pc = "dedup"
    /\ csv_string \in DedupInputs
    /\ labels = <<>>
    /\ coverage = <<>>
    /\ ret = <<>>
    /\ warned = FALSE
    /\ n_records = -1

CallDedup ==
    /\ pc = "dedup"
    /\ ret' = DeduplicateHeader(csv_string)
    /\ pc' = "deduped"
    /\ UNCHANGED <<csv_string, labels, coverage, warned, n_records, uiVars>>

NextDedup == CallDedup

SpecDedup == InitDedup /\ [][NextDedup]_vars

(***************************************************************************)
(* generate_test_cases_with_ai, after the call of the generative service.  *)
(***************************************************************************)
ErrorTag == <<"[", "E", "R", "R", "O", "R", "]">>

\* f"[ERROR] Gagal memanggil Gemini API: {e}", the message cut short
ErrorText == ErrorTag \o <<SP, "e">>

\* tag in text
Contains(text, tag) ==
    \E i \in 1..(Len(text) - Len(tag) + 1) :
        SubSeq(text, i, i + Len(tag) - 1) = tag

\* The backquote character
TICK == "TICK"

IsFenceAt(text, i) ==
    i + 2 <= Len(text) /\ text[i] = TICK /\ text[i + 1] = TICK /\ text[i + 2] = TICK

IsCsvAt(text, i) ==
    /\ i + 2 <= Len(text)
    /\ text[i] \in {"c", "C"} /\ text[i + 1] \in {"s", "S"} /\ text[i + 2] \in {"v", "V"}

RECURSIVE SkipSpaces(_, _)
SkipSpaces(text, i) ==
    IF i <= Len(text) /\ IsSpace(text[i]) THEN SkipSpaces(text, i + 1) ELSE i

RECURSIVE RemoveFencesKeepTag(_, _)
RemoveFencesKeepTag(text, i) ==
    IF i > Len(text) THEN <<>>
    ELSE IF IsFenceAt(text, i)
         THEN RemoveFencesKeepTag(text, SkipSpaces(text, i + 3))
         ELSE <<text[i]>> \o RemoveFencesKeepTag(text, i + 1)

\* re.sub of three backquotes, an optional csv in any case and the white
\* space that follows, by the empty string
\* The scan starts at i.  Matches are taken from the left and do not overlap:
\* in a run of backquotes they start at every third one, and a backquote is
\* never inside the csv or the white space of an earlier match.
TicksBefore(text, i, j) ==
    Cardinality({k \in i..(j - 1) : \A m \in k..(j - 1) : text[m] = TICK})

IsMatchStart(text, i, j) ==
    IsFenceAt(text, j) /\ TicksBefore(text, i, j) % 3 = 0

\* The first position after the match that starts at j
MatchEnd(text, j) ==
    SkipSpaces(text, IF IsCsvAt(text, j + 3) THEN j + 6 ELSE j + 3)

InMatch(text, i, j) ==
    \E m \in i..j : IsMatchStart(text, i, m) /\ j < MatchEnd(text, m)

\* The characters lo..hi that are in no match
RECURSIVE KeepUnmatched(_, _, _, _)
KeepUnmatched(text, i, lo, hi) ==
    IF lo > hi THEN <<>>
    ELSE IF lo = hi THEN (IF InMatch(text, i, lo) THEN <<>> ELSE <<text[lo]>>)
    ELSE KeepUnmatched(text, i, lo, (lo + hi) \div 2)
         \o KeepUnmatched(text, i, (lo + hi) \div 2 + 1, hi)

RemoveFences(text, i) == KeepUnmatched(text, i, i, Len(text))

\* raw_csv_text after response.text.strip(), the substitution and strip()
CleanResponse(text) == Strip(RemoveFences(Strip(text), 1))

\* if "[ERROR]" not in final_csv_output: enforce
SkipEnforce(final_csv_output) == Contains(final_csv_output, ErrorTag)

\* except Exception: return f"[ERROR] ...", start_time_str, 0.0, "ERROR", "ERROR"
FailureResult ==
    [text |-> ErrorText, ran |-> {"except"}, warned |-> FALSE,
     project_tag |-> "ERROR", action_tag |-> "ERROR"]

\* extract_action_tag and extract_project_acronym on the prompts of the model
Prompts == {"", "   ", "test the login", "Download RoPA"}

IsEmpty(prompt) == prompt = ""

\* not user_prompt.strip()
IsBlank(prompt) == prompt \in {"", "   "}

\* Two of platform_options; the session starts with "Website".
Platforms == {"Website", "API"}

ActionTagOf(prompt) == IF prompt = "Download RoPA" THEN "Download" ELSE "GenericAction"

ProjectTagOf(prompt) == IF prompt = "Download RoPA" THEN "RoPA" ELSE "DPIA"

\* str.lower() on the tags of the model
Lower(tag) ==
    CASE tag = "Download" -> "download"
      [] tag = "GenericAction" -> "genericaction"
      [] tag = "RoPA" -> "ropa"
      [] tag = "DPIA" -> "dpia"
      [] tag = "ERROR" -> "error"
      [] OTHER -> tag

\* The result of a call that returned: the text, the stages that ran on it
\* and whether the enforcer warned.
Returned(text, deduplicates, enforces, e_warned, user_prompt) ==
    [text |-> text,
     ran |-> {"service"}
             \cup (IF deduplicates THEN {"dedup"} ELSE {})
             \cup (IF enforces THEN {"enforce"} ELSE {}),
     warned |-> enforces /\ e_warned,
     project_tag |-> ProjectTagOf(user_prompt),
     action_tag |-> ActionTagOf(user_prompt)]

\* final_csv_output = enforce_metadata_on_csv(...)
AfterEnforce(e, deduplicates, user_prompt) ==
    Returned(e.ret, deduplicates, TRUE, e.warned, user_prompt)

\* The metadata is enforced unless the text holds the tag.
EnforceUnlessTagged(final_csv_output, deduplicates, user_prompt, default_labels, default_coverage) ==
    IF SkipEnforce(final_csv_output)
    THEN Returned(final_csv_output, deduplicates, FALSE, FALSE, user_prompt)
    ELSE AfterEnforce(
             enforce_metadata_on_csv(final_csv_output, default_labels, default_coverage),
             deduplicates, user_prompt)

\* The header is deduplicated when the text has more than one line.
Postprocess(raw_csv_text, user_prompt, default_labels, default_coverage) ==
    EnforceUnlessTagged(DeduplicateHeader(raw_csv_text),
                        Len(StrippedLines(raw_csv_text)) > 1,
                        user_prompt, default_labels, default_coverage)

\* outcome: [ok |-> FALSE] when the service call (or reading response.text)
\* raises, [ok |-> TRUE, text |-> ...] when it returns text.
generate_test_cases_with_ai(outcome, user_prompt, default_labels, default_coverage) ==
    IF ~outcome.ok THEN FailureResult
    ELSE Postprocess(CleanResponse(outcome.text), user_prompt,
                     default_labels, default_coverage)

(***************************************************************************)
(* The Streamlit session of aitcgen.py.  Each action is one run of the     *)
(* script, or one step of the run that generates.                          *)
(***************************************************************************)
Keys == {""} \cup NonEmptyKeys

\* client.models.list() with this key: the service accepts k_ok unless the
\* call fails, and rejects k_bad.
ValidationOutcomes(key) ==
    IF key = "k_ok" THEN {"client", "INVALID_KEY"} ELSE {"INVALID_KEY"}

\* get_gemini_client(key): the cached value if there is one.
ClientOutcomes(key) ==
    IF key = "" THEN {None}
    ELSE IF client_cache[key] # "absent" THEN {client_cache[key]}
    ELSE ValidationOutcomes(key)

IsRealClient(client) == client # "INVALID_KEY" /\ client # None

is_disabled_on_process_or_result == is_generating \/ csv_result # <<>>

\* The flag of aitcgen-fix.py, which has no api_key_valid.
is_disabled_global == is_generating \/ csv_result # <<>>

final_disabled_state == is_disabled_on_process_or_result \/ ~api_key_valid

\* [ERROR] as a label typed by the user
SessionLabelValues == { <<>>, <<"q", "a">>, ErrorTag }

SessionCoverageValues == { <<>>, <<"P">> }

Backticks == <<TICK, TICK, TICK>>

TwoColumnHeader == LabelsName \o <<COMMA>> \o CoverageName

\* The texts the generative service returns in the model:
\*   a fenced table with its header repeated,
\*   a table without a Coverage (Issues) column,
\*   a table with [ERROR] in a cell and its header repeated,
\*   a table with a bare carriage return in a row,
\*   the empty text.
ResponseTexts ==
    { Backticks \o <<"c", "s", "v", LF>> \o TwoColumnHeader \o <<LF, "a", COMMA, "a", LF>>
        \o TwoColumnHeader \o <<LF, "a", COMMA, "a", COMMA, "a", LF>> \o Backticks,
      NameName \o <<COMMA>> \o LabelsName \o <<LF, "a", COMMA, "a">>,
      TwoColumnHeader \o <<LF>> \o ErrorTag \o <<COMMA, "a", LF>> \o TwoColumnHeader,
      TwoColumnHeader \o <<LF, "a", COMMA, "a", LF, "a", CR, "a", COMMA, "a", LF, "a", COMMA, "a">>,
      <<>> }

ServiceOutcomes == {[ok |-> FALSE, text |-> <<>>]} \cup {[ok |-> TRUE, text |-> t] : t \in ResponseTexts}

Init ==
    /\ pc = "idle"
    /\ labels = <<>>
    /\ coverage = <<>>
    /\ csv_string = <<>> /\ ret = <<>> /\ warned = FALSE /\ n_records = -1
    /\ is_generating = FALSE
    /\ csv_result = <<>>
    /\ metadata = <<>>
    /\ project_tag = ""
    /\ action_tag = ""
    /\ uploaded_files = 0
    /\ user_prompt_content = ""
    /\ platform_tag = "Website"
    /\ gemini_files = <<>>
    /\ generated = <<>>
    /\ ran = {}
    /\ attempts = NoAttempts
    /\ api_key_input \in Keys
    /\ IF api_key_input # ""
       THEN \E client \in ValidationOutcomes(api_key_input) :
              /\ client_cache = [EmptyCache EXCEPT ![api_key_input] = client]
              /\ api_key_valid = IsRealClient(client)
              /\ api_key_error_message =
                    (IF IsRealClient(client) THEN "API key valid!"
                     ELSE "API key tidak valid!")
       ELSE /\ client_cache = EmptyCache
            /\ api_key_valid = FALSE
            /\ api_key_error_message = None

\* The user can act: no run is in progress or pending.
Interactive == pc = "idle" /\ ~is_generating

validate_api_key_on_change ==
    /\ Interactive
    /\ ~is_disabled_on_process_or_result
    /\ \E current_key \in Keys :
        /\ api_key_input' = current_key
        /\ IF current_key = ""
           THEN /\ api_key_valid' = FALSE
                /\ api_key_error_message' = "API key tidak boleh kosong!"
                /\ UNCHANGED client_cache
           ELSE \E client \in ValidationOutcomes(current_key) :
                /\ client_cache' = [EmptyCache EXCEPT ![current_key] = client]
                /\ api_key_valid' = IsRealClient(client)
                /\ api_key_error_message' =
                      (IF client = "INVALID_KEY" THEN "API key tidak valid!"
                       ELSE "API key valid! Input lainnya telah diaktifkan.")
    /\ UNCHANGED <<pc, labels, coverage, fnVars, is_generating, csv_result,
                   metadata, project_tag, action_tag, uploaded_files,
                   user_prompt_content, platform_tag, gemini_files, generated, ran,
                   attempts>>

\* The platform selector, the file uploader, the prompt area and the two
\* metadata inputs: the script runs again after a change of any one widget.
EditInputs ==
    /\ Interactive
    /\ ~final_disabled_state
    /\ \/ /\ platform_tag' \in Platforms
          /\ UNCHANGED <<uploaded_files, user_prompt_content, labels, coverage>>
       \/ /\ uploaded_files' \in 0..MaxFiles
          /\ UNCHANGED <<platform_tag, user_prompt_content, labels, coverage>>
       \/ /\ user_prompt_content' \in Prompts
          /\ UNCHANGED <<platform_tag, uploaded_files, labels, coverage>>
       \/ /\ labels' \in SessionLabelValues
          /\ UNCHANGED <<platform_tag, uploaded_files, user_prompt_content, coverage>>
       \/ /\ coverage' \in SessionCoverageValues
          /\ UNCHANGED <<platform_tag, uploaded_files, user_prompt_content, labels>>
    /\ UNCHANGED <<pc, fnVars, is_generating, csv_result, metadata, project_tag,
                   action_tag, api_key_input, api_key_valid,
                   api_key_error_message, client_cache, gemini_files,
                   generated, ran, attempts>>

GenerateButton ==
    /\ Interactive
    /\ ~final_disabled_state
    /\ csv_result' = <<>>
    /\ metadata' = <<>>
    /\ project_tag' = ""
    /\ action_tag' = ""
    /\ is_generating' =
          (api_key_valid /\ uploaded_files > 0 /\ ~IsBlank(user_prompt_content))
    /\ attempts' = NoAttempts
    /\ UNCHANGED <<pc, labels, coverage, fnVars, api_key_input, api_key_valid,
                   api_key_error_message, uploaded_files, user_prompt_content, platform_tag,
                   client_cache, gemini_files, generated, ran>>

\* Another session changes its key, which clears the process-wide cache.
CacheCleared ==
    /\ pc = "idle"
    /\ client_cache # EmptyCache
    /\ client_cache' = EmptyCache
    /\ UNCHANGED <<pc, labels, coverage, fnVars, is_generating, csv_result,
                   metadata, project_tag, action_tag, api_key_input,
                   api_key_valid, api_key_error_message, uploaded_files,
                   user_prompt_content, platform_tag, gemini_files, generated, ran,
                   attempts>>

\* The main block up to the check of the client.
RunStart ==
    /\ pc = "idle"
    /\ is_generating
    /\ \E client \in ClientOutcomes(api_key_input) :
        /\ client_cache' =
              (IF api_key_input = "" THEN client_cache
               ELSE [client_cache EXCEPT ![api_key_input] = client])
        /\ IF IsRealClient(client)
           THEN pc' = "upload" /\ UNCHANGED is_generating
           ELSE pc' = "idle" /\ is_generating' = FALSE
    /\ gemini_files' = <<>>
    /\ generated' = <<>>
    /\ ran' = {}
    /\ UNCHANGED <<labels, coverage, fnVars, csv_result, metadata, project_tag,
                   action_tag, api_key_input, api_key_valid,
                   api_key_error_message, uploaded_files, user_prompt_content, platform_tag,
                   attempts>>

\* The handles in a list of handles.
Handles(files) == {files[i] : i \in 1..Len(files)}

\* upload_files_to_gemini: each file is tried once; the handles of the
\* uploads that succeed are returned in order.
RunUpload ==
    /\ pc = "upload"
    /\ \E succeeded \in SUBSET (1..uploaded_files) :
          gemini_files' = SelectSeq([i \in 1..uploaded_files |-> i],
                                    LAMBDA f : f \in succeeded)
    /\ attempts' = [attempts EXCEPT !.upload =
                        [f \in 1..MaxFiles |->
                            IF f <= uploaded_files THEN @[f] + 1 ELSE @[f]],
                                    !.handles = Handles(gemini_files')]
    /\ pc' = "generate"
    /\ UNCHANGED <<labels, coverage, fnVars, is_generating, csv_result, metadata,
                   project_tag, action_tag, api_key_input, api_key_valid,
                   api_key_error_message, uploaded_files, user_prompt_content,
                   platform_tag, client_cache, generated, ran>>

\* upload_files_to_gemini raises: copying file k to the temporary directory
\* fails, outside the try of the loop, after the files before it were tried.
\* The list of handles is lost with the call and gemini_files stays []; the
\* main block reports the exception and goes to its finally clause.
RunUploadRaises ==
    /\ pc = "upload"
    /\ \E k \in 1..uploaded_files :
          /\ \E succeeded \in SUBSET (1..(k - 1)) :
                attempts' = [attempts EXCEPT
                                !.upload = [f \in 1..MaxFiles |->
                                               IF f < k THEN @[f] + 1 ELSE @[f]],
                                !.handles = succeeded]
    /\ ran' = {"fatal"}
    /\ pc' = "finally"
    /\ UNCHANGED <<labels, coverage, fnVars, is_generating, csv_result, metadata,
                   project_tag, action_tag, api_key_input, api_key_valid,
                   api_key_error_message, uploaded_files, user_prompt_content,
                   platform_tag, client_cache, gemini_files, generated>>

DiscardTaggedNever(text) == FALSE

\* if "[ERROR]" not in csv_result: keep it
DiscardTagged(text) == Contains(text, ErrorTag)

\* The result is counted and kept in the session unless it holds the tag.
KeepResult(g) ==
    /\ generated' = <<g.text>>
    /\ warned' = g.warned
    /\ IF ~DiscardTagged(g.text)
       THEN /\ csv_result' = <<g.text>>
            /\ metadata' = << [start_time |-> "start",
                               duration |-> "duration",
                               num_test_cases |-> count_csv_rows(g.text)] >>
            /\ project_tag' = Lower(g.project_tag)
            /\ action_tag' = Lower(g.action_tag)
            /\ ran' = g.ran \cup {"count"}
       ELSE /\ ran' = g.ran
            /\ UNCHANGED <<csv_result, metadata, project_tag, action_tag>>

\* if gemini_files or not uploaded_files: generate_test_cases_with_ai
RunGenerate ==
    /\ pc = "generate"
    /\ IF gemini_files # <<>> \/ uploaded_files = 0
       THEN /\ \E outcome \in ServiceOutcomes :
                   KeepResult(generate_test_cases_with_ai(
                                  outcome, user_prompt_content, labels, coverage))
            /\ attempts' = [attempts EXCEPT !.generate = @ + 1]
       ELSE UNCHANGED <<generated, warned, csv_result, metadata, project_tag,
                        action_tag, ran, attempts>>
    /\ pc' = "finally"
    /\ UNCHANGED <<labels, coverage, csv_string, ret, n_records, is_generating,
                   api_key_input, api_key_valid, api_key_error_message,
                   uploaded_files, user_prompt_content, platform_tag, client_cache,
                   gemini_files>>

\* delete_uploaded_files: one deletion for each handle in files.
DeleteEach(files) ==
    attempts' = [attempts EXCEPT !.delete =
                    [f \in 1..MaxFiles |->
                        IF \E i \in 1..Len(files) : files[i] = f
                        THEN @[f] + 1 ELSE @[f]]]

RunFinallyStillGenerating ==
    /\ pc = "finally"
    /\ DeleteEach(gemini_files)
    /\ pc' = "idle"
    /\ UNCHANGED <<labels, coverage, fnVars, is_generating, csv_result, metadata,
                   project_tag, action_tag, api_key_input, api_key_valid,
                   api_key_error_message, uploaded_files, user_prompt_content, platform_tag,
                   client_cache, gemini_files, generated, ran>>

\* finally: delete_uploaded_files; is_generating = False; st.rerun()
RunFinally ==
    /\ pc = "finally"
    /\ DeleteEach(gemini_files)
    /\ is_generating' = FALSE
    /\ pc' = "idle"
    /\ UNCHANGED <<labels, coverage, fnVars, csv_result, metadata, project_tag,
                   action_tag, api_key_input, api_key_valid,
                   api_key_error_message, uploaded_files, user_prompt_content, platform_tag,
                   client_cache, gemini_files, generated, ran>>

\* if st.session_state.csv_result: neither None nor the empty string
ResultPanelDrawn == csv_result # <<>> /\ csv_result[1] # <<>>

\* The Clear Output button of aitcgen-fix.py, which keeps no tags.
ClearOutputFix ==
    /\ Interactive
    /\ ResultPanelDrawn
    /\ csv_result' = <<>>
    /\ metadata' = <<>>
    /\ UNCHANGED <<pc, labels, coverage, fnVars, is_generating, project_tag,
                   action_tag, api_key_input, api_key_valid,
                   api_key_error_message, uploaded_files, user_prompt_content,
                   platform_tag, client_cache, gemini_files, generated, ran,
                   attempts>>

\* The Clear Output button, which is part of the result panel.
ClearOutput ==
    /\ Interactive
    /\ ResultPanelDrawn
    /\ csv_result' = <<>>
    /\ metadata' = <<>>
    /\ project_tag' = ""
    /\ action_tag' = ""
    /\ UNCHANGED <<pc, labels, coverage, fnVars, is_generating, api_key_input,
                   api_key_valid, api_key_error_message, uploaded_files,
                   user_prompt_content, platform_tag, client_cache, gemini_files, generated,
                   ran, attempts>>

Next ==
    \/ validate_api_key_on_change
    \/ EditInputs
    \/ GenerateButton
    \/ CacheCleared
    \/ RunStart
    \/ RunUpload
    \/ RunUploadRaises
    \/ RunGenerate
    \/ RunFinally
    \/ ClearOutput

Spec == Init /\ [][Next]_vars

\* The script runs on after st.rerun(), and each statement of the main block
\* returns or raises: a step of the run that is possible is taken.
RunStep == RunStart \/ RunUpload \/ RunUploadRaises \/ RunGenerate \/ RunFinally

FairSpec == Spec /\ WF_vars(RunStep)

(***************************************************************************)
(* The fence stripper on its own: response.text.strip(), the substitution  *)
(* and the strip() that follows it, on texts built from a few tokens.      *)
(***************************************************************************)
MaxFenceTokens == 5

FenceTokens ==
    { Backticks, <<"c", "s", "v">>, <<"C", "s", "V">>, <<"a">>, <<COMMA>>,
      <<SP>>, <<LF>> }

FenceTexts ==
    { Concat(ts) : ts \in UNION { [1..n -> FenceTokens] : n \in 0..MaxFenceTokens } }

InitFence ==
    /\ pc = "fence"
    /\ csv_string \in FenceTexts
    /\ labels = <<>>
    /\ coverage = <<>>
    /\ ret = <<>>
    /\ warned = FALSE
    /\ n_records = -1
    /\ SessionAtRest

CallFence ==
    /\ pc = "fence"
    /\ ret' = CleanResponse(csv_string)
    /\ pc' = "fenced"
    /\ UNCHANGED <<csv_string, labels, coverage, warned, n_records, uiVars>>

NextFence == CallFence

SpecFence == InitFence /\ [][NextFence]_vars

(***************************************************************************)
(* The normalisation of a returned text: the header clean-up block, then   *)
(* enforce_metadata_on_csv, on tables written with LF or with CRLF.        *)
(***************************************************************************)
\* final_csv_output of the clean-up block, handed to enforce_metadata_on_csv
NormalizationPipeline(text, l, c) ==
    enforce_metadata_on_csv(DeduplicateHeader(text), l, c)

MaxPipeRows == 2

PipeHeaders == { TwoColumnHeader, NameName \o <<COMMA>> \o LabelsName }

PipeLines ==
    { <<"a", COMMA, "b">>,
      <<"a">>,
      <<QUOTE, "a", COMMA, "b", QUOTE, COMMA, "c", COMMA, "d">>,
      TwoColumnHeader }

LineEnds == { <<LF>>, <<CR, LF>> }

RECURSIVE JoinWith(_, _)
JoinWith(lines, eol) ==
    IF lines = <<>> THEN <<>>
    ELSE IF Len(lines) = 1 THEN lines[1]
    ELSE lines[1] \o eol \o JoinWith(Tail(lines), eol)

PipeInputs ==
    { JoinWith(<<h>> \o b, eol) :
        h \in PipeHeaders,
        b \in UNION { [1..n -> PipeLines] : n \in 0..MaxPipeRows },
        eol \in LineEnds }

InitPipeline ==
    /\ pc = "pipe"
    /\ csv_string \in PipeInputs
    /\ labels \in LabelValues
    /\ coverage \in CoverageValues
    /\ ret = <<>>
    /\ warned = FALSE
    /\ n_records = -1
    /\ SessionAtRest

CallPipeline ==
    /\ pc = "pipe"
    /\ \E r \in {NormalizationPipeline(csv_string, labels, coverage)} :
          ret' = r.ret /\ warned' = r.warned
    /\ pc' = "piped"
    /\ UNCHANGED <<csv_string, labels, coverage, n_records, uiVars>>

NextPipeline == CallPipeline

SpecPipeline == InitPipeline /\ [][NextPipeline]_vars

(***************************************************************************)
(* A function applied to its own output: the header clean-up block, or     *)
(* enforce_metadata_on_csv with the same replacement values, twice.        *)
(***************************************************************************)
MaxIdemText == 4

\* A header line that is one quoted space, and two data lines.
EmptyHeaderInput == <<QUOTE, SP, QUOTE, LF, "a", LF, "a", COMMA, "a">>

IdemDedupInputs ==
    { t \in UNION { [1..n -> Alphabet] : n \in 0..MaxIdemText } : Strip(t) = t }
    \cup { ExampleDedupInput, EmptyHeaderInput }

IdemEnforceInputs ==
    { h \o b : h \in HeaderLines,
               b \in UNION { [1..n -> Alphabet] : n \in 0..MaxIdemText } }
    \cup { MixedRowsInput, BareCRInput }

InitTwice ==
    /\ \/ pc = "dedup_first" /\ csv_string \in IdemDedupInputs
          /\ labels = <<>> /\ coverage = <<>>
       \/ pc = "enforce_first" /\ csv_string \in IdemEnforceInputs
          /\ labels \in LabelValues /\ coverage \in CoverageValues
    /\ ret = <<>>
    /\ warned = FALSE
    /\ n_records = -1
    /\ SessionAtRest

DedupFirst ==
    /\ pc = "dedup_first"
    /\ ret' = DeduplicateHeader(csv_string)
    /\ pc' = "dedup_once"
    /\ UNCHANGED <<csv_string, labels, coverage, warned, n_records, uiVars>>

\* The output of the first pass is the input of the second.
DedupSecond ==
    /\ pc = "dedup_once"
    /\ csv_string' = ret
    /\ ret' = DeduplicateHeader(ret)
    /\ pc' = "dedup_twice"
    /\ UNCHANGED <<labels, coverage, warned, n_records, uiVars>>

EnforceFirst ==
    /\ pc = "enforce_first"
    /\ \E r \in {enforce_metadata_on_csv(csv_string, labels, coverage)} :
          ret' = r.ret /\ warned' = r.warned
    /\ pc' = "enforce_once"
    /\ UNCHANGED <<csv_string, labels, coverage, n_records, uiVars>>

EnforceSecond ==
    /\ pc = "enforce_once"
    /\ csv_string' = ret
    /\ \E r \in {enforce_metadata_on_csv(ret, labels, coverage)} :
          ret' = r.ret /\ warned' = r.warned
    /\ pc' = "enforce_twice"
    /\ UNCHANGED <<labels, coverage, n_records, uiVars>>

NextTwice == DedupFirst \/ DedupSecond \/ EnforceFirst \/ EnforceSecond

SpecTwice == InitTwice /\ [][NextTwice]_vars

(***************************************************************************)
(* What the claims about enforce_metadata_on_csv speak of.                 *)
(***************************************************************************)
Enforced == pc = "enforced"

HasColumn(header, name) == \E i \in 1..Len(header) : Strip(header[i]) = name

ColumnOf(header, name) == CHOOSE i \in 1..Len(header) : Strip(header[i]) = name

\* The header record was read and names both target columns.
HasBoth(rows) ==
    /\ rows # <<>>
    /\ HasColumn(rows[1], LabelsName)
    /\ HasColumn(rows[1], CoverageName)

\* The header record was read and lacks a target column.
Lacks(rows) == rows # <<>> /\ ~HasBoth(rows)

LacksColumn == Lacks(ParseCSV(csv_string).rows)

\* The whole table is read and rewritten.
Normalized ==
    Enforced /\ LET p == ParseCSV(csv_string) IN ~p.err /\ HasBoth(p.rows)

\* The reader raises while the function is consuming it: on the header, or
\* on a data row (read only when both columns were found).
ParseFailure ==
    /\ csv_string # <<>>
    /\ LET p == ParseCSV(csv_string) IN
         \/ p.rows = <<>>
         \/ p.err /\ HasBoth(p.rows)

\* `Name,Labels\n"a,b",qa`
ExampleEnforceClaimed ==
    NameName \o <<COMMA>> \o LabelsName
    \o <<LF, QUOTE, "a", COMMA, "b", QUOTE, COMMA, "q", "a">>

\* C1 (as claimed): with both columns in the header, every data row of the
\* output holds L in Labels and C in Coverage (Issues), and each of its other
\* fields equals the field of the input row it comes from (the input rows at
\* least as long as the header, in order).
C1_Original ==
    Normalized =>
        LET rows == ParseCSV(csv_string).rows
            out == ParseCSV(ret).rows
            li == ColumnOf(rows[1], LabelsName)
            ci == ColumnOf(rows[1], CoverageName)
            kept == SelectSeq(Tail(rows), LAMBDA row : Len(row) >= Len(rows[1]))
        IN /\ Len(out) = Len(kept) + 1
           /\ \A k \in 1..Len(kept) :
                /\ Len(out[k + 1]) = Len(kept[k])
                /\ \A j \in 1..Len(kept[k]) :
                     out[k + 1][j] = (IF j = li THEN labels
                                      ELSE IF j = ci THEN coverage
                                      ELSE kept[k][j])

\* C2 (as claimed): the example `Name,Labels\n"a,b",old` with Labels "qa"
\* comes back as `Name,Labels\n"a,b",qa`.
C2_Original ==
    (Enforced /\ csv_string = ExampleEnforceInput /\ labels = <<"q", "a">>)
        => ret = ExampleEnforceClaimed

\* C2 (amended): the example has no Coverage (Issues) column, so it comes
\* back unchanged, Labels still "old", the quoted field still quoted, and
\* without a warning.
C2_Amended ==
    (Enforced /\ csv_string = ExampleEnforceInput /\ labels = <<"q", "a">>)
        => (ret = ExampleEnforceInput /\ ~warned)

C2_Witness ==
    Enforced /\ csv_string = ExampleEnforceInput /\ labels = <<"q", "a">>

\* C3: a text whose header lacks "Labels" or "Coverage (Issues)" is returned
\* unchanged, whatever the replacement values.
C3_Unchanged == (Enforced /\ LacksColumn) => ret = csv_string

C3_Witness ==
    /\ Enforced
    /\ labels # <<>>
    /\ LET rows == ParseCSV(csv_string).rows IN
         /\ Lacks(rows)
         /\ HasColumn(rows[1], LabelsName)
         /\ Len(rows) >= 2 /\ Len(rows[2]) >= Len(rows[1])

\* C4 (as claimed): a missing column is reported to the caller by a warning.
C4_Original == (Enforced /\ LacksColumn) => warned

\* C4 (amended): a missing column gives the input back with no warning; the
\* function warns only when the reader raises.
C4_Amended ==
    /\ (Enforced /\ warned) => ParseFailure
    /\ (Enforced /\ ~warned /\ LacksColumn) => ret = csv_string
    /\ (Enforced /\ warned) => ~LacksColumn

C4_Witness ==
    /\ Enforced /\ ~warned /\ ret = csv_string
    /\ LET p == ParseCSV(csv_string) IN p.err /\ Lacks(p.rows)

\* C7 (as claimed): after normalisation every data row of the output has
\* exactly as many cells as the header.
C7_Original ==
    Normalized =>
        LET out == ParseCSV(ret).rows IN
        \A k \in 2..Len(out) : Len(out[k]) = Len(out[1])

\* C7 (amended): after normalisation every data row of the output has at
\* least as many cells as the header: shorter rows are dropped, longer rows
\* are kept with their extra cells.
C7_Amended ==
    Normalized =>
        LET out == ParseCSV(ret).rows
            rows == ParseCSV(csv_string).rows
        IN /\ out # <<>> /\ Len(out[1]) = Len(rows[1])
           /\ \A k \in 2..Len(out) : Len(out[k]) >= Len(out[1])

C7_Witness ==
    /\ Normalized
    /\ LET out == ParseCSV(ret).rows
           rows == ParseCSV(csv_string).rows
       IN /\ \E k \in 2..Len(out) : Len(out[k]) > Len(out[1])
          /\ \E k \in 2..Len(rows) : rows[k] # <<>> /\ Len(rows[k]) < Len(rows[1])

\* C9: when the reader raises inside enforce_metadata_on_csv, the call still
\* returns, gives back the input text unchanged, and warns.
C9_ParseFailure == (Enforced /\ ParseFailure) => (ret = csv_string /\ warned)

C9_Witness ==
    /\ Enforced /\ warned /\ ret = csv_string
    /\ LET p == ParseCSV(csv_string) IN
         p.err /\ HasBoth(p.rows) /\ Len(p.rows) >= 2

(***************************************************************************)
(* What the claims about the header clean-up block speak of.               *)
(***************************************************************************)
Deduped == pc = "deduped"

\* A line in which every field is either free of quotes and line breaks or
\* is opened and closed by a quote, inner quotes doubled.
RECURSIVE WellFormedFrom(_, _, _)
WellFormedFrom(line, i, st) ==
    IF i > Len(line) THEN st \in {"start", "plain", "closed"}
    ELSE LET c == line[i] IN
         CASE st = "start" ->
                IF c = QUOTE THEN WellFormedFrom(line, i + 1, "quoted")
                ELSE IF c = COMMA THEN WellFormedFrom(line, i + 1, "start")
                ELSE IF c \in {CR, LF} THEN FALSE
                ELSE WellFormedFrom(line, i + 1, "plain")
           [] st = "plain" ->
                IF c = COMMA THEN WellFormedFrom(line, i + 1, "start")
                ELSE IF c \in {QUOTE, CR, LF} THEN FALSE
                ELSE WellFormedFrom(line, i + 1, "plain")
           [] st = "quoted" ->
                IF c = QUOTE THEN WellFormedFrom(line, i + 1, "closed")
                ELSE WellFormedFrom(line, i + 1, "quoted")
           [] st = "closed" ->
                IF c = QUOTE THEN WellFormedFrom(line, i + 1, "quoted")
                ELSE IF c = COMMA THEN WellFormedFrom(line, i + 1, "start")
                ELSE FALSE

WellFormedLine(line) == WellFormedFrom(line, 1, "start")

\* The re-serialised form of a line that parses.
Canon(line) == FormatRow(NextRecord(line).row)

\* Lines separated by single "\n", none blank or padded, each well formed,
\* and no line after the first re-serialising to what the first does.
WellFormedSingleHeader(text) ==
    /\ text # <<>>
    /\ LET ls == SplitLF(text, <<>>) IN
         /\ \A i \in 1..Len(ls) :
               ls[i] # <<>> /\ Strip(ls[i]) = ls[i] /\ WellFormedLine(ls[i])
         /\ \A i \in 2..Len(ls) : Canon(ls[i]) # Canon(ls[1])

\* The header line is already in its re-serialised form.
HeaderIsCanonical(text) ==
    LET ls == SplitLF(text, <<>>) IN Canon(ls[1]) = ls[1]

ParseableLines(ls) == Len(ls) > 1 /\ \A i \in 1..Len(ls) : NextRecord(ls[i]).ok

\* Re-serialising leaves the record's text as written: strip() removes the
\* line terminator only.
EdgeSafe(line) == Canon(line) = JoinFields(NextRecord(line).row, 1)

RECURSIVE RecordsOf(_)
RecordsOf(ls) ==
    IF ls = <<>> THEN <<>> ELSE <<NextRecord(ls[1]).row>> \o RecordsOf(Tail(ls))

Counted == pc = "counted"

\* C8: count_csv_rows returns max(0, R - 1) for an input of R records: 0 for
\* the empty string, 0 for a header alone, 3 for a header and 3 data rows;
\* and never a negative number, whatever the input.
C8_RowCount ==
    Counted =>
        /\ ret >= 0
        /\ csv_string = <<>> => ret = 0
        /\ n_records >= 0 =>
              ret = (IF n_records - 1 > 0 THEN n_records - 1 ELSE 0)

C8_Witness == Counted /\ n_records = 4 /\ ret = 3

(***************************************************************************)
(* What the claims about a generating run speak of.                        *)
(***************************************************************************)
\* The run has a result and it holds the tag.
Tagged == generated # <<>> /\ Contains(generated[1], ErrorTag)

\* The call of the service raised.
ServiceFailed == "except" \in ran

\* C10 (as stated): when the call of the generative service fails the
\* function returns a string holding [ERROR], and for every result holding
\* the tag the header deduplication, the metadata enforcement and the row
\* count are all skipped and csv_result is not set.
C10_Original ==
    /\ ServiceFailed => Tagged
    /\ Tagged => /\ ran \cap {"dedup", "enforce", "count"} = {}
                 /\ csv_result = <<>>

\* C10 (amended): when the call of the generative service fails the function
\* returns a string holding [ERROR] and no post-processing stage runs; for
\* every result holding the tag the row count is skipped and csv_result is
\* not set; the metadata enforcement has run on a tagged result only when
\* the tag came in with the Labels or Coverage value.  (The header
\* deduplication is not skipped for a tagged text the service returned.)
C10_Amended ==
    /\ ServiceFailed => Tagged /\ ran = {"except"}
    /\ Tagged => "count" \notin ran /\ csv_result = <<>>
    /\ (pc = "finally" /\ Tagged /\ "enforce" \in ran)
          => Contains(labels, ErrorTag) \/ Contains(coverage, ErrorTag)

\* The service failed in a run, and the run ends with a tagged result that
\* is not kept.
C10_Witness ==
    /\ pc = "finally"
    /\ ServiceFailed
    /\ generated = <<ErrorText>>
    /\ csv_result = <<>>

(***************************************************************************)
(* What the claims about the normalisation pipeline speak of.              *)
(***************************************************************************)
Piped == pc = "piped"

HasLineBreak(text) == \E i \in 1..Len(text) : text[i] = LF

\* The records are separated by LF alone.
SeparatedByLF(text) ==
    HasLineBreak(text) /\ \A i \in 1..Len(text) : text[i] # CR

\* The records are separated by CR LF.
SeparatedByCRLF(text) ==
    /\ HasLineBreak(text)
    /\ \A i \in 1..Len(text) :
          /\ text[i] = LF => (i > 1 /\ text[i - 1] = CR)
          /\ text[i] = CR => (i < Len(text) /\ text[i + 1] = LF)

\* C11 (as stated): the pipeline keeps the line-ending convention of its
\* input: LF-separated records in, LF-separated records out; CRLF in, CRLF
\* out.
C11_Original ==
    (Piped /\ HasLineBreak(ret)) =>
        /\ SeparatedByLF(csv_string) => SeparatedByLF(ret)
        /\ SeparatedByCRLF(csv_string) => SeparatedByCRLF(ret)

\* C11 (amended): the line ends of the output do not depend on those of the
\* input.  The clean-up block joins the lines it keeps with LF; when the
\* enforcer rewrites the table (both columns present, no parse failure) every
\* record of the output is separated by CR LF, and when it returns its input
\* (a column is missing) the output stays LF-separated.
C11_Amended ==
    (Piped /\ HasLineBreak(ret)) =>
        LET final_csv_output == DeduplicateHeader(csv_string)
            p == ParseCSV(final_csv_output)
        IN /\ (HasLineBreak(csv_string) /\ HasLineBreak(final_csv_output))
                 => SeparatedByLF(final_csv_output)
           /\ IF ~p.err /\ HasBoth(p.rows)
              THEN SeparatedByCRLF(ret)
              ELSE SeparatedByLF(ret)

\* An LF-separated table comes back CRLF-separated.
C11_Witness ==
    Piped /\ SeparatedByLF(csv_string) /\ SeparatedByCRLF(ret)

(***************************************************************************)
(* What the claims about the fence stripper speak of.                      *)
(***************************************************************************)
Fenced == pc = "fenced"

HasFence(text) == \E i \in 1..Len(text) : IsFenceAt(text, i)

\* The text without a fence at its start (and the csv that follows it).
DropLeadingFence(s) ==
    IF IsFenceAt(s, 1)
    THEN SubSeq(s, IF IsCsvAt(s, 4) THEN 7 ELSE 4, Len(s))
    ELSE s

\* The text without a fence at its end.
DropTrailingFence(s) ==
    IF Len(s) >= 3 /\ IsFenceAt(s, Len(s) - 2)
    THEN SubSeq(s, 1, Len(s) - 3)
    ELSE s

\* Fences taken off the two ends only, with the white space around them.
TrimFences(text) ==
    Strip(DropTrailingFence(Strip(DropLeadingFence(Strip(text)))))

\* The characters that are neither white space nor backquotes.
Visible(text) == SelectSeq(text, LAMBDA c : ~IsSpace(c) /\ c # TICK)

\* The text without the csv that directly follows a fence.
RECURSIVE DropTags(_, _)
DropTags(text, i) ==
    IF i > Len(text) THEN <<>>
    ELSE IF IsFenceAt(text, i)
         THEN Backticks \o DropTags(text, IF IsCsvAt(text, i + 3) THEN i + 6 ELSE i + 3)
         ELSE <<text[i]>> \o DropTags(text, i + 1)

\* C12 (as stated): fences are removed at the start and at the end of the
\* text, with the white space around them, and all other text is left as it
\* is; a text without a fence passes through (trimmed).
C12_Original == Fenced => ret = TrimFences(csv_string)

\* C12 (amended): every fence is removed, wherever it stands in the text,
\* with the csv (any letter case) that directly follows it and the white
\* space after that; the result is trimmed.  So the result holds no
\* backquote run of three, has no white space at its ends, keeps every other
\* visible character in order, equals the trimmed input when the input holds
\* no fence, and equals the trimmed body when the only fences are one at the
\* start and one at the end.
C12_Amended ==
    Fenced =>
        /\ ~HasFence(ret)
        /\ Strip(ret) = ret
        /\ SelectSeq(ret, LAMBDA c : ~IsSpace(c)) = Visible(DropTags(csv_string, 1))
        /\ ~HasFence(csv_string) => ret = Strip(csv_string)
        /\ ~HasFence(TrimFences(csv_string)) => ret = TrimFences(csv_string)

\* A fence with a tag at the start, one at the end, a body between them.
C12_Witness ==
    /\ Fenced
    /\ csv_string = Backticks \o <<"C", "s", "V", LF, "a">> \o Backticks
    /\ ret = <<"a">>

(***************************************************************************)
(* What the claim about applying a function twice speaks of.               *)
(***************************************************************************)
\* C13 (as stated): the header clean-up applied to its own output returns
\* that output unchanged, and so does enforce_metadata_on_csv with the same
\* L and C.  (After the second pass csv_string holds the output of the
\* first and ret the output of the second.)
C13_Original ==
    /\ pc = "dedup_twice" => ret = csv_string
    /\ pc = "enforce_twice" => ret = csv_string

\* C13, the part that holds: enforce_metadata_on_csv is idempotent, and the
\* header clean-up is idempotent on every output that does not begin with
\* an empty header line.
C13_Idempotent ==
    /\ pc = "enforce_twice" => ret = csv_string
    /\ (pc = "dedup_twice" /\ (csv_string = <<>> \/ csv_string[1] # LF))
          => ret = csv_string

\* C14: within one generation request (from the click on Generate to the end
\* of the run it starts) the generative service is called at most once, each
\* file is uploaded at most once and each uploaded file is deleted at most
\* once, whether the calls succeed or fail; a deletion is only tried for a
\* file whose upload succeeded, and no call is made before the upload step.
C14_NoRetry ==
    /\ attempts.generate <= 1
    /\ \A f \in 1..MaxFiles :
          /\ attempts.upload[f] <= 1
          /\ attempts.delete[f] <= attempts.upload[f]
    /\ (pc = "finally" /\ ServiceFailed) => attempts.generate = 1
    /\ pc = "upload" => attempts = NoAttempts

\* A request in which one upload failed and the service call failed has
\* ended: every call was made once and nothing was tried again.
C14_Witness ==
    /\ pc = "idle" /\ ~is_generating
    /\ ServiceFailed
    /\ attempts.generate = 1
    /\ uploaded_files = 2
    /\ gemini_files = <<1>>
    /\ attempts.upload[1] = 1 /\ attempts.upload[2] = 1
    /\ attempts.delete[1] = 1 /\ attempts.delete[2] = 0

\* The text the reader of count_csv_rows is given, and what it makes of it.
CountParse == ParseCSV(Concat(NonBlankLines(csv_string)))

\* C15: when the CSV reader raises inside count_csv_rows, the call returns,
\* and returns 0, however many records were read before the failure.
C15_ParseFailure == (Counted /\ CountParse.err) => ret = 0

\* The reader raised on the fourth line, after three records.
C15_Witness ==
    Counted /\ CountParse.err /\ Len(CountParse.rows) = 3 /\ ret = 0

\* C16: a text with one non-empty line, or none, comes back from the header
\* clean-up exactly as it went in: it is neither parsed nor re-serialised,
\* so a line in another quoting, or one the reader would reject, is kept as
\* written.
C16_SingleLine ==
    (Deduped /\ Len(StrippedLines(csv_string)) <= 1) => ret = csv_string

\* One line whose re-serialised form differs from its text comes back as
\* written.
C16_Witness ==
    /\ Deduped
    /\ Len(StrippedLines(csv_string)) = 1
    /\ NextRecord(csv_string).ok
    /\ Canon(csv_string) # csv_string
    /\ ret = csv_string

\* The lines of the returned text, the first of them the header line.
OutputLines == IF ret = <<>> THEN << <<>> >> ELSE SplitLF(ret, <<>>)

Without(seq, i) == SubSeq(seq, 1, i - 1) \o SubSeq(seq, i + 1, Len(seq))

Unparseable(line) == ~NextRecord(line).ok

\* C18: in the header clean-up a line after line 0 that the reader rejects
\* is dropped silently: no warning is raised, no such line is in the returned
\* text, and the lines after the header are those the clean-up keeps of the
\* other lines, as if the rejected line had not been there.
C18_SilentDrop ==
    Deduped =>
        LET ls == StrippedLines(csv_string) IN
        Len(ls) > 1 =>
            LET hdr == ExpectedHeader(ls[1])
                out == OutputLines
            IN \A i \in 2..Len(ls) :
                  Unparseable(ls[i]) =>
                     /\ warned = FALSE
                     /\ out[1] = hdr
                     /\ \A j \in 2..Len(out) : ~Unparseable(out[j])
                     /\ Tail(out) = FilterLines(Without(Tail(ls), i - 1), hdr)

\* `a\ra` is rejected; the lines before and after it are returned.
C18_Witness ==
    /\ Deduped
    /\ csv_string = UnparseableLineInput
    /\ Unparseable(<<"a", CR, "a">>)
    /\ ret = <<"a", LF, COMMA, LF, QUOTE, QUOTE>>

\* The input rows that the row loop of enforce_metadata_on_csv writes back.
LongEnough(rows) ==
    SelectSeq(Tail(rows), LAMBDA row : row # <<>> /\ Len(row) >= Len(rows[1]))

\* The output row comes from the input row: the same number of cells, and
\* outside the two target columns the same cells (the last cell of the text
\* up to the white space at its end, which the final strip may take).
SameRow(out_row, row, li, ci, is_last) ==
    /\ Len(out_row) = Len(row)
    /\ \A j \in 1..Len(row) :
          \/ j \in {li, ci}
          \/ out_row[j] = row[j]
          \/ is_last /\ j = Len(row) /\ out_row[j] = RStrip(row[j])

RowsSurvive(rows, out) ==
    LET kept == LongEnough(rows)
        li == HeaderIndex(rows[1], LabelsName)
        ci == HeaderIndex(rows[1], CoverageName)
    IN /\ Len(out) = Len(kept) + 1
       /\ \A k \in 1..Len(kept) :
             SameRow(out[k + 1], kept[k], li, ci, k = Len(kept))

\* C19: when the table is rewritten (both target columns found, the reader
\* does not raise), the data rows of the output are the input data rows at
\* least as long as the header, one output row for each, in the same order;
\* empty rows and rows shorter than the header are not in the output.
C19_RowsKept ==
    Normalized => RowsSurvive(ParseCSV(csv_string).rows, ParseCSV(ret).rows)

\* An empty row and a short row are dropped between rows that are kept.
C19_Witness ==
    /\ Normalized
    /\ LET rows == ParseCSV(csv_string).rows IN
         /\ \E k \in 2..Len(rows) : rows[k] = <<>>
         /\ \E k \in 2..Len(rows) : rows[k] # <<>> /\ Len(rows[k]) < Len(rows[1])
         /\ Len(LongEnough(rows)) = 3
         /\ Len(ParseCSV(ret).rows) = 4

\* The rows enforce_metadata_on_csv hands to the writer: the header as read,
\* then the rows kept, with the two cells overwritten.
WrittenRows(rows, l, c) ==
    <<rows[1]>> \o EnforceRows(Tail(rows), rows[1],
                               HeaderIndex(rows[1], LabelsName),
                               HeaderIndex(rows[1], CoverageName), l, c)

\* Minimal quoting as claimed: a field is wrapped in double quotes, its own
\* quotes doubled, exactly when it holds a comma, a quote or a line break.
MinimalField(field) ==
    IF \E i \in 1..Len(field) : field[i] \in {COMMA, QUOTE, LF, CR}
    THEN <<QUOTE>> \o DoubleQuotes(field) \o <<QUOTE>>
    ELSE field

RECURSIVE MinimalLine(_)
MinimalLine(row) ==
    IF row = <<>> THEN <<>>
    ELSE IF Len(row) = 1 THEN MinimalField(row[1])
    ELSE MinimalField(row[1]) \o <<COMMA>> \o MinimalLine(Tail(row))

RECURSIVE MinimalText(_)
MinimalText(rows) ==
    IF rows = <<>> THEN <<>>
    ELSE MinimalLine(rows[1]) \o <<CR, LF>> \o MinimalText(Tail(rows))

MinimallyQuoted(written) == ret = Strip(MinimalText(written))

\* C20 (as claimed): when the table is rewritten, the header fields of the
\* output equal the header fields of the input, every field is written with
\* minimal quoting, and parsing the output gives back the rows written.
C20_Original ==
    Normalized =>
        LET rows == ParseCSV(csv_string).rows
            out == ParseCSV(ret).rows
            written == WrittenRows(rows, labels, coverage)
        IN /\ out # <<>> /\ out[1] = rows[1]
           /\ MinimallyQuoted(written)
           /\ out = written

\* What holds of the rewritten table: the quoting is minimal, and parsing the
\* output gives back the rows written except for white space lost at the
\* start of the first cell and at the end of the last cell of the text.
C20_UpToStrip ==
    Normalized =>
        LET rows == ParseCSV(csv_string).rows
            out == ParseCSV(ret).rows
            written == WrittenRows(rows, labels, coverage)
        IN /\ MinimallyQuoted(written)
           /\ Len(out) = Len(written)
           /\ \A k \in 1..Len(written) :
                /\ Len(out[k]) = Len(written[k])
                /\ \A j \in 1..Len(written[k]) :
                     \/ out[k][j] = written[k][j]
                     \/ /\ k = Len(written) /\ j = Len(written[k])
                        /\ out[k][j] = RStrip(written[k][j])
                     \/ /\ k = 1 /\ j = 1
                        /\ out[k][j] = LStrip(written[k][j])

(***************************************************************************)
(* What the claims about the session speak of.                             *)
(***************************************************************************)
\* A widget is disabled when the user cannot act on it.
ApiKeyInputDisabled == ~ENABLED validate_api_key_on_change

OtherInputsDisabled == ~ENABLED EditInputs

GenerateDisabled == ~ENABLED GenerateButton

\* C21: in every state the API-key input is disabled exactly when a
\* generation is running or a result is present, and the other inputs and
\* the Generate button are disabled exactly when a generation is running, a
\* result is present or the API key is not valid.
C21_Disabled ==
    /\ ApiKeyInputDisabled <=> (is_generating \/ csv_result # <<>>)
    /\ OtherInputsDisabled <=> (is_generating \/ csv_result # <<>> \/ ~api_key_valid)
    /\ GenerateDisabled <=> (is_generating \/ csv_result # <<>> \/ ~api_key_valid)

\* A run has ended and left a result: with a valid key and no run in
\* progress, every input is disabled.
C21_Witness ==
    /\ pc = "idle" /\ ~is_generating /\ api_key_valid
    /\ csv_result # <<>> /\ attempts.generate = 1
    /\ ApiKeyInputDisabled /\ OtherInputsDisabled /\ GenerateDisabled

\* A step that takes the result away while no run is in progress.
ResultCleared == csv_result # <<>> /\ csv_result' = <<>>

\* C22: Clear Output sets csv_result to None, metadata to {} and both tags
\* to "", leaves the key, its validity and message, the platform, the prompt
\* and the two metadata values as they were, and with a valid key leaves
\* every input enabled.
C22_ClearOutput ==
    [][(ClearOutput \/ ResultCleared) =>
          /\ csv_result' = <<>> /\ metadata' = <<>>
          /\ project_tag' = "" /\ action_tag' = ""
          /\ UNCHANGED <<api_key_input, api_key_valid, api_key_error_message,
                         platform_tag, user_prompt_content, labels, coverage>>
          /\ api_key_valid' =>
                /\ pc' = "idle"
                /\ ~is_disabled_on_process_or_result'
                /\ ~final_disabled_state']_vars

\* The run kept a result with its tags and the result is gone again without
\* a new request: Clear Output was clicked, and the inputs are enabled.
C22_Witness ==
    /\ pc = "idle" /\ ~is_generating /\ attempts.generate = 1
    /\ generated # <<>> /\ ~DiscardTagged(generated[1])
    /\ csv_result = <<>> /\ metadata = <<>>
    /\ project_tag = "" /\ action_tag = ""
    /\ platform_tag = "API" /\ user_prompt_content = "Download RoPA"
    /\ ~OtherInputsDisabled /\ ~ApiKeyInputDisabled /\ ~GenerateDisabled

\* The script is inside the main generation block.
InMainBlock == pc \in {"upload", "generate", "finally"}

\* C23: the main generation block runs only while is_generating is True,
\* every run of it ends with is_generating False (the client refused, the
\* uploads failed, the generation kept or discarded, an exception raised),
\* and a started generation eventually leaves the generating state.
C23_LeavesGenerating ==
    /\ [](InMainBlock => is_generating)
    /\ [][(RunStep /\ pc' = "idle") => ~is_generating']_vars
    /\ [][(~is_generating /\ is_generating') => ~InMainBlock']_vars
    /\ (is_generating ~> ~is_generating)

\* A run that raised in the upload has ended and is_generating is False.
C23_Witness ==
    /\ pc = "idle" /\ ~is_generating
    /\ ran = {"fatal"} /\ attempts.upload[1] = 1 /\ attempts.generate = 0

\* A run has ended: its finally clause has run and nothing was started since.
RunEnded == pc = "idle" /\ ~is_generating

\* C24 (as claimed): at the end of every run, deletion has been attempted for
\* every file handle that an upload returned during the run.
C24_Original ==
    RunEnded => \A f \in attempts.handles : attempts.delete[f] >= 1

\* What holds: at the end of a run, deletion has been attempted once for
\* every handle in the list upload_files_to_gemini returned to the main
\* block, whatever became of the generation.
C24_ReturnedList ==
    (RunEnded /\ attempts # NoAttempts) =>
        /\ \A f \in Handles(gemini_files) : attempts.delete[f] = 1
        /\ \A f \in 1..MaxFiles :
              attempts.delete[f] = 1 => f \in Handles(gemini_files)

\* The user can do something: a widget is enabled or Clear Output is there.
UserCanAct ==
    \/ ~ApiKeyInputDisabled \/ ~OtherInputsDisabled \/ ~GenerateDisabled
    \/ ENABLED ClearOutput

\* C25 (as claimed): whenever no generation is running and a result is
\* present, whatever string the generator returned, the result panel with
\* the Clear Output button is drawn.
C25_Original ==
    (RunEnded /\ csv_result # <<>>) => (ResultPanelDrawn /\ ENABLED ClearOutput)

\* What holds: a result that is not the empty string is shown with its Clear
\* Output button, and the session can be stuck only on an empty result.
C25_NonEmptyResult ==
    /\ (RunEnded /\ csv_result # <<>> /\ csv_result[1] # <<>>)
          => (ResultPanelDrawn /\ ENABLED ClearOutput)
    /\ (RunEnded /\ ~UserCanAct) => csv_result = << <<>> >>

MetadataKeys == {"start_time", "duration", "num_test_cases"}

\* C26: in every state where csv_result is not None it does not hold
\* [ERROR], metadata has the keys start_time, duration and num_test_cases,
\* and num_test_cases is count_csv_rows(csv_result); csv_result and metadata
\* are set together and cleared together.
C26_ResultAndMetadata ==
    /\ csv_result # <<>> =>
          /\ ~Contains(csv_result[1], ErrorTag)
          /\ metadata # <<>>
          /\ DOMAIN metadata[1] = MetadataKeys
          /\ metadata[1].num_test_cases = count_csv_rows(csv_result[1])
    /\ (csv_result = <<>>) <=> (metadata = <<>>)

\* A run has kept a table of two test cases.
C26_Witness ==
    /\ RunEnded /\ csv_result # <<>>
    /\ generated = csv_result
    /\ metadata[1].num_test_cases = 2
    /\ count_csv_rows(csv_result[1]) = 2

\* The prompts of the model that hold more than white space.
NonBlankPrompts == {"test the login", "Download RoPA"}

\* C27: is_generating becomes True only by a Generate click made with a
\* valid API key, at least one file in the uploader and a prompt that is not
\* blank; and the generative service is called in a run only when at least
\* one upload of that run returned a handle.
C27_StartAndCall ==
    /\ [][(~is_generating /\ is_generating') =>
             /\ GenerateButton
             /\ api_key_valid /\ uploaded_files > 0
             /\ user_prompt_content \in NonBlankPrompts]_vars
    /\ [][attempts'.generate > attempts.generate =>
             /\ gemini_files # <<>>
             /\ attempts.handles # {}]_vars
    /\ [](attempts.generate > 0 => attempts.handles # {})

\* A run started by a click has called the service after one of its two
\* uploads failed and the other returned a handle.
C27_Witness ==
    /\ pc = "finally" /\ is_generating
    /\ api_key_valid /\ uploaded_files = 2
    /\ user_prompt_content \in NonBlankPrompts
    /\ attempts.generate = 1 /\ attempts.handles = {2}

\* The value get_gemini_client last returned for the key in the input is a
\* real client: the cache holds that value until it is cleared.
LatestValidationReal ==
    /\ api_key_input # ""
    /\ client_cache[api_key_input] \in {"client", "absent"}

\* What a change of the key leaves behind: the key is valid only if its
\* validation returned a real client, and if it is not valid a message says so.
KeyChangeEffect ==
    /\ api_key_valid' =>
          /\ api_key_input' # ""
          /\ client_cache'[api_key_input'] = "client"
    /\ ~api_key_valid' =>
          api_key_error_message' =
              (IF api_key_input' = "" THEN "API key tidak boleh kosong!"
               ELSE "API key tidak valid!")

\* C28 (as claimed): api_key_valid is True only if the latest validation of
\* the key in the input returned a real client; a change of the key sets
\* api_key_valid anew, and an empty or rejected key leaves it False with an
\* error message.
C28_Original ==
    /\ [](api_key_valid => LatestValidationReal)
    /\ [][api_key_input' # api_key_input => KeyChangeEffect]_vars

\* What holds: api_key_valid turns True only in the callback of the key
\* input, on a validation that returned a real client, and turns False only
\* there; a change of the key has the effect claimed.  A validation made
\* later by the main block does not touch api_key_valid.
C28_SetByCallback ==
    /\ [][api_key_valid' # api_key_valid => validate_api_key_on_change]_vars
    /\ [][(~api_key_valid /\ api_key_valid') =>
             client_cache'[api_key_input'] = "client"]_vars
    /\ [][api_key_input' # api_key_input => KeyChangeEffect]_vars
    /\ [](api_key_valid => api_key_input # "")

==========================================================================
